---- MODULE Spec2Model ----
(***************************************************************************)
(* Model of ax/service/utils/instantiation.py: the textual front-end that  *)
(* builds parameters, parameter constraints, outcome constraints and       *)
(* experiments, and normalises raw evaluation data.                        *)
(*                                                                         *)
(* Every function of the module is synchronous and pure, so each is an     *)
(* operator computed as the code computes it, and each call is one action: *)
(* the environment picks the arguments, the action records them together   *)
(* with what the call returned or raised, and Return forgets the call.     *)
(*                                                                         *)
(* Strings are sequences of one-character strings, so that str.split(),    *)
(* float() and the "%" suffix test work on characters as the code does.    *)
(***************************************************************************)
EXTENDS Integers, Sequences, FiniteSets, TLC

VARIABLES
    pc,     \* "idle", or "done" once a call has returned or raised
    fn,     \* the function that was called
    args,   \* its arguments
    ret,    \* what it returned (ok) or raised (~ok)
    calls   \* the calls it made to other functions, in order

vars == <<pc, fn, args, ret, calls>>

Range(s) == {s[i] : i \in 1..Len(s)}

SeqsUpTo(S, n) == UNION {[1..k -> S] : k \in 0..n}

(***************************************************************************)
(* Bounds of the model.                                                    *)
(***************************************************************************)
\* longest token stream enumerated exhaustively over ShortVocab
MaxTokens == 5
\* most "+"-joined terms of a generated linear expression
MaxTerms == 2

(***************************************************************************)
(* Tokens.                                                                 *)
(***************************************************************************)
X == <<"x">>
Y == <<"y">>
PLUS == <<"+">>
STAR == <<"*">>
LE == <<"<", "=">>
GE == <<">", "=">>
ONE == <<"1">>
MINUS_TWO == <<"-", "2">>

\* COMPARISON_OPS = {"<=": ComparisonOp.LEQ, ">=": ComparisonOp.GEQ}
COMPARISON_OPS == (LE :> "LEQ") @@ (GE :> "GEQ")

(***************************************************************************)
(* Python built-ins, restricted to the characters the model uses           *)
(* (letters, digits, sign, "*", "<", ">", "=", "%", space).                *)
(***************************************************************************)
DigitValue == ("0" :> 0) @@ ("1" :> 1) @@ ("2" :> 2) @@ ("8" :> 8)

IsSign(c) == c \in {"+", "-"}

\* str.split(): maximal runs of non-space characters, no empty strings
RECURSIVE SplitAcc(_, _, _)
SplitAcc(s, cur, acc) ==
    IF s = <<>>
    THEN IF cur = <<>> THEN acc ELSE Append(acc, cur)
    ELSE IF Head(s) = " "
         THEN SplitAcc(Tail(s), <<>>, IF cur = <<>> THEN acc ELSE Append(acc, cur))
         ELSE SplitAcc(Tail(s), Append(cur, Head(s)), acc)

split(s) == SplitAcc(s, <<>>, <<>>)

\* sep.join(tokens), used to write the argument strings
RECURSIVE join(_, _)
join(sep, tokens) ==
    IF tokens = <<>> THEN <<>>
    ELSE IF Len(tokens) = 1 THEN tokens[1]
    ELSE tokens[1] \o sep \o join(sep, Tail(tokens))

RECURSIVE DigitsValue(_)
DigitsValue(s) ==
    IF s = <<>> THEN 0
    ELSE 10 * DigitsValue(SubSeq(s, 1, Len(s) - 1)) + DigitValue[s[Len(s)]]

Unsigned(s) == IF s # <<>> /\ IsSign(s[1]) THEN Tail(s) ELSE s

\* float(s) succeeds: an optional sign and then one or more digits
IsFloat(s) ==
    /\ Unsigned(s) # <<>>
    /\ \A i \in 1..Len(Unsigned(s)) : Unsigned(s)[i] \in DOMAIN DigitValue

\* float(s), for a string float() accepts
float(s) ==
    IF s[1] = "-" THEN 0 - DigitsValue(Unsigned(s)) ELSE DigitsValue(Unsigned(s))

Raise(exc, msg) == [ok |-> FALSE, exc |-> exc, msg |-> msg]

Return(value) == [ok |-> TRUE, value |-> value]

(***************************************************************************)
(* constraint_from_str                                                     *)
(***************************************************************************)
\* sum_const without its test for "*"
sum_const_ignoring_star(tokens) ==
    /\ Len(tokens) >= 5
    /\ Len(tokens) % 2 = 1
    /\ tokens[Len(tokens) - 1] \in DOMAIN COMPARISON_OPS

order_const(tokens) ==
    Len(tokens) = 3 /\ tokens[2] \in DOMAIN COMPARISON_OPS

sum_const(tokens) ==
    /\ Len(tokens) >= 5
    /\ Len(tokens) % 2 = 1
    /\ tokens[Len(tokens) - 1] \in DOMAIN COMPARISON_OPS
    /\ STAR \notin Range(tokens)

parameter_const(tokens) ==
    /\ Len(tokens) >= 5
    /\ Len(tokens) % 2 = 1
    /\ tokens[Len(tokens) - 1] \in DOMAIN COMPARISON_OPS
    /\ STAR \in Range(tokens)

OrderConstraint(lower, upper) ==
    [kind |-> "OrderConstraint", lower_parameter |-> lower, upper_parameter |-> upper]

SumConstraint(parameters, is_upper_bound, bound) ==
    [kind |-> "SumConstraint", parameters |-> parameters,
     is_upper_bound |-> is_upper_bound, bound |-> bound]

ParameterConstraint(constraint_dict, bound) ==
    [kind |-> "ParameterConstraint", constraint_dict |-> constraint_dict,
     bound |-> bound]

\* the used parameters in the order the tokens name them
FilterKnown_token_order(parameters, used_parameters) == used_parameters

\* [parameters[p] for p in parameters if p in used_parameters]
RECURSIVE FilterKnown(_, _)
FilterKnown(parameters, used_parameters) ==
    IF parameters = <<>> THEN <<>>
    ELSE IF Head(parameters) \in Range(used_parameters)
         THEN <<Head(parameters)>> \o FilterKnown(Tail(parameters), used_parameters)
         ELSE FilterKnown(Tail(parameters), used_parameters)

\* dict(zip(used_parameters, used_weights)): zip stops at the shorter list and
\* a later pair replaces an earlier one with the same key
ZipLen(used_parameters, used_weights) ==
    IF Len(used_parameters) <= Len(used_weights)
    THEN Len(used_parameters) ELSE Len(used_weights)

LastIndex(used_parameters, p, n) ==
    CHOOSE i \in 1..n :
        /\ used_parameters[i] = p
        /\ \A j \in (i + 1)..n : used_parameters[j] # p

DictZip(used_parameters, used_weights) ==
    LET n == ZipLen(used_parameters, used_weights)
    IN  [p \in {used_parameters[i] : i \in 1..n} |->
            used_weights[LastIndex(used_parameters, p, n)]]

\* the loop of the sum branch over tokens[:-2]; idx is the 0-based index
RECURSIVE SumLoop(_, _, _, _)
SumLoop(tokens, parameters, idx, used_parameters) ==
    IF idx >= Len(tokens) - 2
    THEN Return(SumConstraint(
             FilterKnown(parameters, used_parameters),
             COMPARISON_OPS[tokens[Len(tokens) - 1]] = "LEQ",
             float(tokens[Len(tokens)])))
    ELSE IF idx % 2 = 0
         THEN IF tokens[idx + 1] \in Range(parameters)
              THEN SumLoop(tokens, parameters, idx + 1,
                           Append(used_parameters, tokens[idx + 1]))
              ELSE Raise("AssertionError", "Parameter not in parameter_names")
         ELSE IF tokens[idx + 1] = PLUS
              THEN SumLoop(tokens, parameters, idx + 1, used_parameters)
              ELSE Raise("AssertionError", "Expected a sum constraint")

\* the loop of the weighted branch over tokens[:-2]
RECURSIVE ParameterLoop(_, _, _, _, _)
ParameterLoop(tokens, parameters, idx, used_parameters, used_weights) ==
    IF idx >= Len(tokens) - 2
    THEN Return(ParameterConstraint(
             DictZip(used_parameters, used_weights),
             float(tokens[Len(tokens)])))
    ELSE IF idx % 4 = 0
         THEN IF IsFloat(tokens[idx + 1])
              THEN ParameterLoop(tokens, parameters, idx + 1, used_parameters,
                                 Append(used_weights, float(tokens[idx + 1])))
              ELSE Raise("ValueError", "Weight must be a number")
    ELSE IF idx % 4 = 1
         THEN IF tokens[idx + 1] = STAR
              THEN ParameterLoop(tokens, parameters, idx + 1, used_parameters,
                                 used_weights)
              ELSE Raise("AssertionError", "Expected a multiplication")
    ELSE IF idx % 4 = 2
         THEN IF tokens[idx + 1] \in Range(parameters)
              THEN ParameterLoop(tokens, parameters, idx + 1,
                                 Append(used_parameters, tokens[idx + 1]),
                                 used_weights)
              ELSE Raise("AssertionError", "Parameter not in parameter_names")
    ELSE IF tokens[idx + 1] = PLUS
         THEN ParameterLoop(tokens, parameters, idx + 1, used_parameters,
                            used_weights)
         ELSE Raise("AssertionError", "Expected a sum constraint")

\* the order branch without the normalisation of ">="
OrderBranch_unnormalised(tokens, parameters) ==
    IF tokens[1] \notin Range(parameters) \/ tokens[3] \notin Range(parameters)
    THEN Raise("AssertionError", "Parameter not in parameter_names")
    ELSE Return(OrderConstraint(tokens[1], tokens[3]))

\* the order branch
OrderBranch(tokens, parameters) ==
    LET left == tokens[1]
        right == tokens[3]
    IN  IF left \notin Range(parameters)
        THEN Raise("AssertionError", "Parameter not in parameter_names")
        ELSE IF right \notin Range(parameters)
        THEN Raise("AssertionError", "Parameter not in parameter_names")
        ELSE IF COMPARISON_OPS[tokens[2]] = "LEQ"
        THEN Return(OrderConstraint(left, right))
        ELSE Return(OrderConstraint(right, left))

\* parameters is the dict's key list in iteration order; a Parameter object
\* is identified by its name
constraint_from_str(representation, parameters) ==
    LET tokens == split(representation)
    IN  IF ~(order_const(tokens) \/ sum_const(tokens) \/ parameter_const(tokens))
        THEN Raise("ValueError", "Parameter constraint should be of form")
        ELSE IF order_const(tokens)
        THEN OrderBranch(tokens, parameters)
        ELSE IF ~IsFloat(tokens[Len(tokens)])
        THEN Raise("ValueError", "Bound must be a number")
        ELSE IF sum_const(tokens)
        THEN SumLoop(tokens, parameters, 0, <<>>)
        ELSE ParameterLoop(tokens, parameters, 0, <<>>, <<>>)

(***************************************************************************)
(* Arguments of constraint_from_str.                                       *)
(***************************************************************************)
ShortVocab == {X, Y, PLUS, STAR, LE, GE, ONE}

Names == {X, Y}

Weights == {ONE, MINUS_TWO}

\* the key lists of the parameters dict
KnownParameters == {<<X, Y>>, <<Y, X>>, <<Y>>}

\* a term of a linear expression: weighted, bare name, bare number
Terms ==
    {<<w, STAR, p>> : w \in Weights, p \in Names}
        \cup {<<p>> : p \in Names} \cup {<<w>> : w \in Weights}

RECURSIVE Interleave(_, _)
Interleave(terms, joiners) ==
    IF Len(terms) = 1 THEN terms[1]
    ELSE terms[1] \o <<joiners[1]>> \o Interleave(Tail(terms), Tail(joiners))

\* term (+|*) term ... (<=|>=) bound
Expressions ==
    UNION {
        {Interleave(ts, js) \o <<op, b>> :
            ts \in [1..k -> Terms], js \in [1..(k - 1) -> {PLUS, STAR}],
            op \in {LE, GE}, b \in Weights \cup {X}}
        : k \in 1..MaxTerms}

ConstraintTokens == SeqsUpTo(ShortVocab, MaxTokens) \cup Expressions

(***************************************************************************)
(* Actions.                                                                *)
(***************************************************************************)
Init ==
    /\ pc = "idle"
    /\ fn = "none"
    /\ args = <<>>
    /\ ret = <<>>
    /\ calls = <<>>

CallConstraintFromStr ==
    /\ pc = "idle"
    /\ \E tokens \in ConstraintTokens, parameters \in KnownParameters :
        /\ args' = [representation |-> join(<<" ">>, tokens),
                    parameters |-> parameters]
        /\ ret' = constraint_from_str(join(<<" ">>, tokens), parameters)
    /\ fn' = "constraint_from_str"
    /\ calls' = <<>>
    /\ pc' = "done"

Done ==
    /\ pc = "done"
    /\ pc' = "idle"
    /\ fn' = "none"
    /\ args' = <<>>
    /\ ret' = <<>>
    /\ calls' = <<>>

NextConstraint == CallConstraintFromStr \/ Done

SpecConstraint == Init /\ [][NextConstraint]_vars

(***************************************************************************)
(* Properties of constraint_from_str.                                      *)
(***************************************************************************)
ConstraintDone == pc = "done" /\ fn = "constraint_from_str"

\* the token stream of the call
CallTokens == split(args.representation)

IsComparison(token) == token = LE \/ token = GE

\* the numbers the argument strings are written with
NumberValue == (ONE :> 1) @@ (MINUS_TWO :> (0 - 2))

GrammarError ==
    ~ret.ok /\ ret.exc = "ValueError"
            /\ ret.msg = "Parameter constraint should be of form"

ShapesHolding(tokens) ==
    {s \in {"order", "sum", "parameter"} :
        \/ s = "order" /\ order_const(tokens)
        \/ s = "sum" /\ sum_const(tokens)
        \/ s = "parameter" /\ parameter_const(tokens)}

\* C1: at most one of the three shape predicates holds of a token stream, and
\* the call fails with the accepted-grammars error exactly when the stream is
\* neither 3 tokens around a comparison operator nor an odd number >= 5 of
\* tokens with a comparison operator second to last.
C1_ShapesExclusiveAndTotal ==
    ConstraintDone =>
        LET tokens == CallTokens
            n == Len(tokens)
        IN  /\ Cardinality(ShapesHolding(tokens)) <= 1
            /\ GrammarError <=>
                   /\ ~(n = 3 /\ IsComparison(tokens[2]))
                   /\ ~(n >= 5 /\ n % 2 = 1 /\ IsComparison(tokens[n - 1]))

\* a 5-token stream without an operator second to last is rejected
C1_Witness ==
    /\ ConstraintDone
    /\ Len(CallTokens) = 5
    /\ ~IsComparison(CallTokens[4])
    /\ GrammarError

\* C2: "a op b" with a and b known gives Order{lower=a, upper=b} for "<=" and
\* Order{lower=b, upper=a} for ">="; with a or b unknown the call fails.
C2_OrderDirection ==
    (ConstraintDone /\ Len(CallTokens) = 3 /\ IsComparison(CallTokens[2])) =>
        LET a == CallTokens[1]
            b == CallTokens[3]
            known == Range(args.parameters)
        IN  IF a \in known /\ b \in known
            THEN /\ ret.ok
                 /\ ret.value.kind = "OrderConstraint"
                 /\ CallTokens[2] = LE =>
                        /\ ret.value.lower_parameter = a
                        /\ ret.value.upper_parameter = b
                 /\ CallTokens[2] = GE =>
                        /\ ret.value.lower_parameter = b
                        /\ ret.value.upper_parameter = a
            ELSE ~ret.ok

\* "x >= y" has been parsed into Order{lower=y, upper=x}
C2_Witness ==
    /\ ConstraintDone
    /\ CallTokens = <<X, GE, Y>>
    /\ ret.ok
    /\ ret.value.lower_parameter = Y
    /\ ret.value.upper_parameter = X

\* the stream has the shape of a sum: odd, >= 5 tokens, operator second to
\* last, no "*"
SumShaped(tokens) ==
    /\ Len(tokens) >= 5
    /\ Len(tokens) % 2 = 1
    /\ IsComparison(tokens[Len(tokens) - 1])
    /\ \A i \in 1..Len(tokens) : tokens[i] # STAR

\* the stream is p1 + p2 + ... + pn op bound over the known names
SumForm(tokens, known) ==
    /\ SumShaped(tokens)
    /\ \A i \in 1..(Len(tokens) - 2) :
           IF i % 2 = 1 THEN tokens[i] \in known ELSE tokens[i] = PLUS
    /\ tokens[Len(tokens)] \in DOMAIN NumberValue

\* s lists exactly the members of names, without repetition, in the order of
\* the list inOrder
ListsInOrderOf(s, names, inOrder) ==
    /\ Range(s) = names
    /\ \A i, j \in 1..Len(s) : i < j =>
           \E k, l \in 1..Len(inOrder) :
               k < l /\ inOrder[k] = s[i] /\ inOrder[l] = s[j]

\* C3: a sum-form input gives a Sum constraint over the known parameters the
\* tokens name, in the order of known_parameters, an upper bound exactly for
\* "<=", with the trailing number as bound; a sum-shaped stream with an
\* unknown name, an odd-indexed token other than "+" or a non-numeric bound
\* fails.
C3_SumConstraint ==
    (ConstraintDone /\ SumShaped(CallTokens)) =>
        LET tokens == CallTokens
            n == Len(tokens)
            named == {tokens[i] : i \in {j \in 1..(n - 2) : j % 2 = 1}}
        IN  IF SumForm(tokens, Range(args.parameters))
            THEN /\ ret.ok
                 /\ ret.value.kind = "SumConstraint"
                 /\ ListsInOrderOf(ret.value.parameters, named, args.parameters)
                 /\ ret.value.is_upper_bound <=> tokens[n - 1] = LE
                 /\ ret.value.bound = NumberValue[tokens[n]]
            ELSE ~ret.ok

\* "y + x <= 1" over the parameters x, y has been parsed into Sum[x, y]
C3_Witness ==
    /\ ConstraintDone
    /\ CallTokens = <<Y, PLUS, X, LE, ONE>>
    /\ args.parameters = <<X, Y>>
    /\ ret.ok
    /\ ret.value.parameters = <<X, Y>>

\* the tokens before the operator are groups "weight * name" separated by "+"
WeightedGroups(tokens, known) ==
    /\ (Len(tokens) - 2) % 4 = 3
    /\ \A i \in 1..(Len(tokens) - 2) :
           \/ i % 4 = 1 /\ tokens[i] \in DOMAIN NumberValue
           \/ i % 4 = 2 /\ tokens[i] = STAR
           \/ i % 4 = 3 /\ tokens[i] \in known
           \/ i % 4 = 0 /\ tokens[i] = PLUS

\* C4: whenever a Weighted constraint is returned, the tokens before the
\* operator are complete groups "weight * name" separated by "+".
C4_WeightedOnlyFromCompleteGroups ==
    (ConstraintDone /\ ret.ok /\ ret.value.kind = "ParameterConstraint") =>
        WeightedGroups(CallTokens, Range(args.parameters))

\* C5: a conforming input w1 * p1 + ... + wn * pn <= bound over known names
\* gives a Weighted constraint that maps every pi to wi, has no other key, and
\* has the trailing number as bound.
C5_WeightedMapping ==
    (/\ ConstraintDone
     /\ Len(CallTokens) >= 5
     /\ WeightedGroups(CallTokens, Range(args.parameters))
     /\ CallTokens[Len(CallTokens) - 1] = LE
     /\ CallTokens[Len(CallTokens)] \in DOMAIN NumberValue) =>
        LET tokens == CallTokens
            n == Len(tokens)
            groups == {i \in 1..(n - 2) : i % 4 = 1}
        IN  /\ ret.ok
            /\ ret.value.kind = "ParameterConstraint"
            /\ DOMAIN ret.value.constraint_dict = {tokens[i + 2] : i \in groups}
            /\ \A i \in groups :
                   ret.value.constraint_dict[tokens[i + 2]] = NumberValue[tokens[i]]
            /\ ret.value.bound = NumberValue[tokens[n]]

(***************************************************************************)
(* outcome_constraint_from_str                                             *)
(***************************************************************************)
OutcomeConstraint(metric_name, op, bound, relative) ==
    [kind |-> "OutcomeConstraint", metric_name |-> metric_name, op |-> op,
     bound |-> bound, relative |-> relative]

\* every "%" is removed from the bound, and the constraint is relative
\* whenever the bound holds a "%"
outcome_constraint_from_str_dropping_every_percent(representation) ==
    LET tokens == split(representation)
    IN  IF ~(Len(tokens) = 3 /\ tokens[2] \in DOMAIN COMPARISON_OPS)
        THEN Raise("AssertionError", "Outcome constraint should be of form")
        ELSE IF IsFloat(SelectSeq(tokens[3], LAMBDA c : c # "%"))
        THEN Return(OutcomeConstraint(
                 tokens[1], COMPARISON_OPS[tokens[2]],
                 float(SelectSeq(tokens[3], LAMBDA c : c # "%")),
                 "%" \in Range(tokens[3])))
        ELSE Raise("ValueError", "Outcome constraint bound should be a float")

outcome_constraint_from_str(representation) ==
    LET tokens == split(representation)
    IN  IF ~(Len(tokens) = 3 /\ tokens[2] \in DOMAIN COMPARISON_OPS)
        THEN Raise("AssertionError", "Outcome constraint should be of form")
        ELSE
            LET op == COMPARISON_OPS[tokens[2]]
                rel == tokens[3][Len(tokens[3])] = "%"
                bound_repr == IF rel
                              THEN SubSeq(tokens[3], 1, Len(tokens[3]) - 1)
                              ELSE tokens[3]
            IN  IF IsFloat(bound_repr)
                THEN Return(OutcomeConstraint(tokens[1], op, float(bound_repr), rel))
                ELSE Raise("ValueError", "Outcome constraint bound should be a float")

(***************************************************************************)
(* Arguments of outcome_constraint_from_str.                               *)
(***************************************************************************)
\* longest token stream enumerated exhaustively over OutcomeVocab
MaxOutcomeTokens == 3
\* longest bound literal
MaxBoundLen == 3

M == <<"m">>
EIGHT == <<"8">>
EIGHT_PERCENT == <<"8", "%">>

OutcomeVocab == {M, LE, GE, EIGHT, EIGHT_PERCENT}

BoundLiterals == SeqsUpTo({"8", "-", "%"}, MaxBoundLen) \ {<<>>}

OutcomeTokens ==
    SeqsUpTo(OutcomeVocab, MaxOutcomeTokens)
        \cup {<<m, op, b>> : m \in {M, EIGHT}, op \in {LE, GE}, b \in BoundLiterals}

\* single or double spaces between the tokens
Separators == {<<" ">>, <<" ", " ">>}

CallOutcomeConstraintFromStr ==
    /\ pc = "idle"
    /\ \E tokens \in OutcomeTokens, sep \in Separators :
        /\ args' = [representation |-> join(sep, tokens)]
        /\ ret' = outcome_constraint_from_str(join(sep, tokens))
    /\ fn' = "outcome_constraint_from_str"
    /\ calls' = <<>>
    /\ pc' = "done"

NextOutcome == CallOutcomeConstraintFromStr \/ Done

SpecOutcome == Init /\ [][NextOutcome]_vars

(***************************************************************************)
(* Properties of outcome_constraint_from_str.                              *)
(***************************************************************************)
OutcomeDone == pc = "done" /\ fn = "outcome_constraint_from_str"

EndsWithPercent(token) == token # <<>> /\ token[Len(token)] = "%"

\* the token without one trailing "%"
WithoutPercent(token) ==
    IF EndsWithPercent(token) THEN SubSeq(token, 1, Len(token) - 1) ELSE token

\* C6: the call succeeds only on 3 tokens around a comparison operator whose
\* last token is numeric once at most one trailing "%" is removed; then the
\* metric is the first token, the op is LEQ for "<=" and GEQ for ">=", the
\* bound is the number without the "%", and relative holds exactly when the
\* last token ends with "%".
C6_OutcomeConstraint ==
    (OutcomeDone /\ ret.ok) =>
        LET tokens == CallTokens
        IN  /\ Len(tokens) = 3
            /\ IsComparison(tokens[2])
            /\ IsFloat(WithoutPercent(tokens[3]))
            /\ ret.value.metric_name = tokens[1]
            /\ ret.value.op = (IF tokens[2] = LE THEN "LEQ" ELSE "GEQ")
            /\ ret.value.bound = float(WithoutPercent(tokens[3]))
            /\ ret.value.relative <=> EndsWithPercent(tokens[3])

\* "m >= -8%" has been parsed into a relative GEQ constraint with bound -8
C6_Witness ==
    /\ OutcomeDone
    /\ CallTokens = <<M, GE, <<"-", "8", "%">>>>
    /\ ret.ok
    /\ ret.value.relative
    /\ ret.value.bound = 0 - 8
    /\ ret.value.op = "GEQ"

(***************************************************************************)
(* Python values: a runtime type and the literal the value is written as.  *)
(* An optional argument is a sequence of length 0 (None) or 1.             *)
(***************************************************************************)
PyInt(repr) == [type |-> "int", repr |-> repr]
PyFloat(repr) == [type |-> "float", repr |-> repr]
PyBool(repr) == [type |-> "bool", repr |-> repr]
PyStr(repr) == [type |-> "str", repr |-> repr]
PyNone == [type |-> "NoneType", repr |-> "None"]
PyList(items) == [type |-> "list", items |-> items]

None == <<>>
Some(v) == <<v>>

\* isinstance(x, typ) for typ one of int, float, bool, str, list: bool is a
\* subclass of int
isinstance(x, typ) == x.type = typ \/ (x.type = "bool" /\ typ = "int")

\* d.get(key, default)
Get(d, key, default) == IF key \in DOMAIN d THEN d[key] ELSE default

\* the results of calling a function on each element in turn, up to and
\* including the first call that raises
RECURSIVE UntilRaise(_)
UntilRaise(results) ==
    IF results = <<>> THEN <<>>
    ELSE IF ~Head(results).ok THEN <<Head(results)>>
    ELSE <<Head(results)>> \o UntilRaise(Tail(results))

AllOk(results) == \A i \in 1..Len(results) : results[i].ok

FirstRaise(results) ==
    results[CHOOSE i \in 1..Len(results) :
                ~results[i].ok /\ \A j \in 1..(i - 1) : results[j].ok]

Values(results) == [i \in 1..Len(results) |-> results[i].value]

(***************************************************************************)
(* parameter_from_json                                                     *)
(***************************************************************************)
PARAM_CLASSES == {"range", "choice", "fixed"}

\* PARAM_TYPES = {"int": int, "float": float, "bool": bool, "str": str}
PARAM_TYPES ==
    ("int" :> "int") @@ ("float" :> "float") @@ ("bool" :> "bool") @@ ("str" :> "str")

\* PARAMETER_PYTHON_TYPE_MAP of ax.core.parameter, read from type to enum
PARAMETER_PYTHON_TYPE_MAP ==
    ("bool" :> "BOOL") @@ ("int" :> "INT") @@ ("float" :> "FLOAT") @@ ("str" :> "STRING")

_get_parameter_type(python_type) ==
    IF python_type \in DOMAIN PARAMETER_PYTHON_TYPE_MAP
    THEN Return(PARAMETER_PYTHON_TYPE_MAP[python_type])
    ELSE Raise("ValueError", "No AE parameter type")

\* typ is the optional value_type (a key of PARAM_TYPES)
_to_parameter_type(vals, typ) ==
    IF typ = None
    THEN IF vals[1] = PyNone
         THEN Raise("ValueError", "Argument to not_none was None")
         ELSE IF ~_get_parameter_type(vals[1].type).ok
         THEN _get_parameter_type(vals[1].type)
         ELSE IF \A i \in 1..Len(vals) : isinstance(vals[i], vals[1].type)
         THEN _get_parameter_type(vals[1].type)
         ELSE Raise("AssertionError", "Values not of the same type")
    ELSE _get_parameter_type(PARAM_TYPES[typ[1]])

RangeParameter(name, parameter_type, lower, upper, log_scale, is_fidelity) ==
    [kind |-> "RangeParameter", name |-> name, parameter_type |-> parameter_type,
     lower |-> lower, upper |-> upper, log_scale |-> log_scale,
     is_fidelity |-> is_fidelity]

ChoiceParameter(name, parameter_type, values, is_ordered) ==
    [kind |-> "ChoiceParameter", name |-> name, parameter_type |-> parameter_type,
     values |-> values, is_ordered |-> is_ordered]

FixedParameter(name, parameter_type, value) ==
    [kind |-> "FixedParameter", name |-> name, parameter_type |-> parameter_type,
     value |-> value]

_make_range_param(name, representation, parameter_type) ==
    IF "bounds" \notin DOMAIN representation
    THEN Raise("AssertionError", "Bounds are required for range parameters")
    ELSE
        LET bounds == representation.bounds
        IN  IF ~(isinstance(bounds, "list") /\ Len(bounds.items) = 2)
            THEN Raise("AssertionError", "Cannot parse parameter: bounds")
            ELSE IF ~_to_parameter_type(bounds.items, parameter_type).ok
            THEN _to_parameter_type(bounds.items, parameter_type)
            ELSE Return(RangeParameter(
                     name,
                     _to_parameter_type(bounds.items, parameter_type).value,
                     bounds.items[1], bounds.items[2],
                     Get(representation, "log_scale", PyBool("False")),
                     Get(representation, "is_fidelity", PyBool("False"))))

_make_choice_param(name, representation, parameter_type) ==
    IF "values" \notin DOMAIN representation
    THEN Raise("AssertionError", "Values are required for choice parameters")
    ELSE
        LET values == representation.values
        IN  IF ~(isinstance(values, "list") /\ Len(values.items) > 1)
            THEN Raise("AssertionError", "Cannot parse parameter: values")
            ELSE IF ~_to_parameter_type(values.items, parameter_type).ok
            THEN _to_parameter_type(values.items, parameter_type)
            ELSE Return(ChoiceParameter(
                     name,
                     _to_parameter_type(values.items, parameter_type).value,
                     values.items,
                     Get(representation, "is_ordered", PyBool("False"))))

_make_fixed_param(name, representation, parameter_type) ==
    IF "value" \notin DOMAIN representation
    THEN Raise("AssertionError", "Value is required for fixed parameters")
    ELSE
        LET value == representation.value
        IN  IF value.type \notin Range(<<"int", "float", "bool", "str">>)
            THEN Raise("AssertionError", "Cannot parse fixed parameter")
            ELSE Return(FixedParameter(
                     name,
                     IF parameter_type = None
                     THEN _get_parameter_type(value.type).value
                     ELSE _get_parameter_type(PARAM_TYPES[parameter_type[1]]).value,
                     value))

\* representation is the dict, a function from its keys to Python values
parameter_from_json(representation) ==
    IF "name" \notin DOMAIN representation
    THEN Raise("KeyError", "name")
    ELSE IF ~isinstance(representation.name, "str")
    THEN Raise("AssertionError", "Parameter name must be a string")
    ELSE IF "type" \notin DOMAIN representation
    THEN Raise("KeyError", "type")
    ELSE IF ~(/\ isinstance(representation.type, "str")
              /\ representation.type.repr \in PARAM_CLASSES)
    THEN Raise("AssertionError", "Type must be range, choice, or fixed")
    ELSE
        LET name == representation.name.repr
            parameter_class == representation.type.repr
            value_type == Get(representation, "value_type", PyNone)
            parameter_type ==
                IF value_type = PyNone THEN None ELSE Some(value_type.repr)
        IN  IF /\ value_type # PyNone
               /\ ~(/\ isinstance(value_type, "str")
                    /\ value_type.repr \in DOMAIN PARAM_TYPES)
            THEN Raise("AssertionError", "Value type must be int, float, bool or str")
            ELSE IF parameter_class = "range"
            THEN _make_range_param(name, representation, parameter_type)
            ELSE IF parameter_class = "choice"
            THEN _make_choice_param(name, representation, parameter_type)
            ELSE IF \E k \in DOMAIN representation :
                        isinstance(representation[k], "list")
            THEN Raise("AssertionError", "")
            ELSE _make_fixed_param(name, representation, parameter_type)

(***************************************************************************)
(* Arguments of parameter_from_json.                                       *)
(***************************************************************************)
\* longest list of bounds or values
MaxValues == 3

PyScalars ==
    {PyInt("0"), PyInt("1"), PyFloat("1.0"), PyBool("True"), PyStr("a"), PyNone}

PyLists == {PyList(l) : l \in SeqsUpTo(PyScalars, MaxValues)}

NameEntries == {"name" :> PyStr("x"), "name" :> PyInt("0")}

TypeEntries == {"type" :> PyStr(c) : c \in PARAM_CLASSES \cup {"other"}}

ValueTypeEntries ==
    {<<>>} \cup {"value_type" :> PyStr(t) : t \in DOMAIN PARAM_TYPES \cup {"other"}}

FieldEntries ==
    {<<>>} \cup {"bounds" :> l : l \in PyLists \cup {PyInt("0")}}
           \cup {"values" :> l : l \in PyLists \cup {PyInt("0")}}
           \cup {"value" :> v : v \in PyScalars \cup {PyList(<<>>)}}

ParameterRepresentations ==
    {n @@ t @@ vt @@ f :
        n \in NameEntries, t \in TypeEntries, vt \in ValueTypeEntries,
        f \in FieldEntries}

CallParameterFromJson ==
    /\ pc = "idle"
    /\ \E representation \in ParameterRepresentations :
        /\ args' = [representation |-> representation]
        /\ ret' = parameter_from_json(representation)
    /\ fn' = "parameter_from_json"
    /\ calls' = <<>>
    /\ pc' = "done"

NextParameter == CallParameterFromJson \/ Done

SpecParameter == Init /\ [][NextParameter]_vars

(***************************************************************************)
(* Properties of parameter_from_json.                                      *)
(***************************************************************************)
ParameterDone == pc = "done" /\ fn = "parameter_from_json"

ExactTypes == {"int", "float", "bool", "str"}

\* the call is for a range or choice parameter without value_type whose value
\* list holds only ints, floats, bools and strs
InfersType ==
    /\ ParameterDone
    /\ "value_type" \notin DOMAIN args.representation
    /\ \/ /\ args.representation.type = PyStr("range")
          /\ "bounds" \in DOMAIN args.representation
          /\ args.representation.bounds.type = "list"
       \/ /\ args.representation.type = PyStr("choice")
          /\ "values" \in DOMAIN args.representation
          /\ args.representation.values.type = "list"

ValueList ==
    IF args.representation.type = PyStr("range")
    THEN args.representation.bounds.items
    ELSE args.representation.values.items

\* C10: a range or choice representation without value_type whose value list
\* holds two values of different exact types among int, float, bool, str
\* fails; when all values have the same exact type the parameter has the type
\* mapped from the first value's type.
C10_MixedTypesRejected ==
    (/\ InfersType
     /\ \A i \in 1..Len(ValueList) : ValueList[i].type \in ExactTypes) =>
        /\ (\E i, j \in 1..Len(ValueList) : ValueList[i].type # ValueList[j].type)
               => ~ret.ok
        /\ ret.ok =>
               ret.value.parameter_type =
                   PARAMETER_PYTHON_TYPE_MAP[ValueList[1].type]

(***************************************************************************)
(* make_experiment                                                         *)
(***************************************************************************)
\* DEFAULT_OBJECTIVE_NAME of ax.core.simple_experiment
DEFAULT_OBJECTIVE_NAME == "objective"

Arm(parameters) == [kind |-> "Arm", parameters |-> parameters]

\* the keys of {p.name: p for p in exp_parameters} in iteration order: a name
\* keeps the place of its first occurrence
RECURSIVE DictKeys(_)
DictKeys(names) ==
    IF names = <<>> THEN <<>>
    ELSE LET front == DictKeys(SubSeq(names, 1, Len(names) - 1))
             last == names[Len(names)]
         IN  IF last \in Range(front) THEN front ELSE Append(front, last)

\* the status_quo test made with all() for any()
RelativeWithoutStatusQuo_all(status_quo_arm, ocs) ==
    status_quo_arm = None /\ \A i \in 1..Len(ocs) : ocs[i].relative

\* status_quo_arm is None and any(oc.relative for oc in ocs)
RelativeWithoutStatusQuo(status_quo_arm, ocs) ==
    status_quo_arm = None /\ \E i \in 1..Len(ocs) : ocs[i].relative

CallsTo(callee, results) == [i \in 1..Len(results) |-> callee]

\* a parameter name as the token the constraint strings use for it
NameToken(name) == <<name>>

\* the result of the call and the calls it made to the three parsers
make_experiment(parameters, name, objective_name, minimize, parameter_constraints, outcome_constraints, status_quo, experiment_type) ==
    LET param_results ==
            UntilRaise([i \in 1..Len(parameters) |-> parameter_from_json(parameters[i])])
        param_calls == CallsTo("parameter_from_json", param_results)
    IN  IF ~AllOk(param_results)
        THEN [ret |-> FirstRaise(param_results), calls |-> param_calls]
        ELSE
    LET exp_parameters == Values(param_results)
        status_quo_arm ==
            IF status_quo = None THEN None ELSE Some(Arm(status_quo[1]))
        parameter_map ==
            DictKeys([i \in 1..Len(exp_parameters) |-> NameToken(exp_parameters[i].name)])
        oc_strings ==
            IF outcome_constraints = None THEN <<>> ELSE outcome_constraints[1]
        oc_results ==
            UntilRaise([i \in 1..Len(oc_strings) |->
                            outcome_constraint_from_str(oc_strings[i])])
        oc_calls == param_calls \o CallsTo("outcome_constraint_from_str", oc_results)
    IN  IF ~AllOk(oc_results)
        THEN [ret |-> FirstRaise(oc_results), calls |-> oc_calls]
        ELSE
    LET ocs == Values(oc_results)
    IN  IF RelativeWithoutStatusQuo(status_quo_arm, ocs)
        THEN [ret |-> Raise("ValueError", "Must set status_quo"), calls |-> oc_calls]
        ELSE
    LET pc_strings ==
            IF parameter_constraints = None THEN <<>> ELSE parameter_constraints[1]
        pc_results ==
            UntilRaise([i \in 1..Len(pc_strings) |->
                            constraint_from_str(pc_strings[i], parameter_map)])
        pc_calls == oc_calls \o CallsTo("constraint_from_str", pc_results)
    IN  IF ~AllOk(pc_results)
        THEN [ret |-> FirstRaise(pc_results), calls |-> pc_calls]
        ELSE [ret |-> Return(
                  [kind |-> "Experiment",
                   name |-> name,
                   search_space |->
                       [parameters |-> exp_parameters,
                        parameter_constraints |->
                            IF parameter_constraints = None THEN None
                            ELSE Some(Values(pc_results))],
                   optimization_config |->
                       [objective |->
                            [metric |-> IF objective_name = None
                                        THEN DEFAULT_OBJECTIVE_NAME
                                        ELSE objective_name[1],
                             minimize |-> minimize],
                        outcome_constraints |-> ocs],
                   status_quo |-> status_quo_arm,
                   experiment_type |-> experiment_type]),
              calls |-> pc_calls]

(***************************************************************************)
(* Arguments of make_experiment.                                           *)
(***************************************************************************)
\* longest list of outcome constraints and of parameter constraints
MaxConstraints == 2

RangeX ==
    ("name" :> PyStr("x")) @@ ("type" :> PyStr("range"))
        @@ ("bounds" :> PyList(<<PyInt("0"), PyInt("1")>>))

ChoiceY ==
    ("name" :> PyStr("y")) @@ ("type" :> PyStr("choice"))
        @@ ("values" :> PyList(<<PyFloat("1.0"), PyFloat("1.0")>>))

\* a range parameter without its bounds
RangeWithoutBounds == ("name" :> PyStr("y")) @@ ("type" :> PyStr("range"))

ExperimentParameters ==
    {<<RangeX>>, <<RangeX, ChoiceY>>, <<RangeX, RangeWithoutBounds>>}

OutcomeStrings ==
    {join(<<" ">>, tokens) :
        tokens \in {<<M, LE, EIGHT>>, <<M, GE, EIGHT_PERCENT>>,
                    <<M, GE, <<"%">>>>, <<M, EIGHT>>}}

ConstraintStrings ==
    {join(<<" ">>, tokens) :
        tokens \in {<<X, LE, Y>>, <<X, PLUS, Y, LE, ONE>>, <<X, LE, ONE>>}}

OptionalLists(S) == {None} \cup {Some(l) : l \in SeqsUpTo(S, MaxConstraints)}

StatusQuos == {None, Some("x" :> PyInt("0"))}

CallMakeExperiment ==
    /\ pc = "idle"
    /\ \E parameters \in ExperimentParameters,
          objective_name \in {None, Some("loss")},
          minimize \in BOOLEAN,
          parameter_constraints \in OptionalLists(ConstraintStrings),
          outcome_constraints \in OptionalLists(OutcomeStrings),
          status_quo \in StatusQuos :
        LET result == make_experiment(parameters, None, objective_name, minimize,
                                      parameter_constraints, outcome_constraints,
                                      status_quo, None)
        IN  /\ args' = [parameters |-> parameters,
                        name |-> None,
                        objective_name |-> objective_name,
                        minimize |-> minimize,
                        parameter_constraints |-> parameter_constraints,
                        outcome_constraints |-> outcome_constraints,
                        status_quo |-> status_quo,
                        experiment_type |-> None]
            /\ ret' = result.ret
            /\ calls' = result.calls
    /\ fn' = "make_experiment"
    /\ pc' = "done"

NextExperiment == CallMakeExperiment \/ Done

SpecExperiment == Init /\ [][NextExperiment]_vars

(***************************************************************************)
(* Properties of make_experiment.                                          *)
(***************************************************************************)
ExperimentDone == pc = "done" /\ fn = "make_experiment"

OutcomeStringsGiven ==
    IF args.outcome_constraints = None THEN <<>> ELSE args.outcome_constraints[1]

\* the string's last token ends with "%"
IsRelativeString(c) ==
    split(c) # <<>> /\ EndsWithPercent(split(c)[Len(split(c))])

SomeRelative ==
    \E i \in 1..Len(OutcomeStringsGiven) : IsRelativeString(OutcomeStringsGiven[i])

StatusQuoError ==
    ~ret.ok /\ ret.exc = "ValueError" /\ ret.msg = "Must set status_quo"

\* C7: without status_quo and with a relative outcome constraint string no
\* experiment is returned; if moreover the parameters are valid and the
\* outcome constraints parse, the call fails with the status_quo error before
\* any parameter constraint string is parsed.  With a status_quo, or without a
\* relative outcome constraint, the call does not fail with that error.
C7_RelativeNeedsStatusQuo ==
    ExperimentDone =>
        IF args.status_quo = None /\ SomeRelative
        THEN /\ ~ret.ok
             /\ (/\ \A i \in 1..Len(args.parameters) :
                        parameter_from_json(args.parameters[i]).ok
                 /\ \A i \in 1..Len(OutcomeStringsGiven) :
                        outcome_constraint_from_str(OutcomeStringsGiven[i]).ok)
                    => /\ StatusQuoError
                       /\ "constraint_from_str" \notin Range(calls)
        ELSE ~StatusQuoError

\* "m <= 8" and "m >= 8%" without status_quo, and parameter constraints given:
\* the call has failed with the status_quo error
C7_Witness ==
    /\ ExperimentDone
    /\ args.status_quo = None
    /\ Len(OutcomeStringsGiven) = 2
    /\ ~IsRelativeString(OutcomeStringsGiven[1])
    /\ IsRelativeString(OutcomeStringsGiven[2])
    /\ args.parameter_constraints # None
    /\ args.parameter_constraints # Some(<<>>)
    /\ StatusQuoError
    /\ "constraint_from_str" \notin Range(calls)

(***************************************************************************)
(* raw_data_to_evaluation                                                  *)
(***************************************************************************)
PyDict(entries) == [type |-> "dict", entries |-> entries]
PyTuple(items) == [type |-> "tuple", items |-> items]
PyNumpy(type, repr) == [type |-> type, repr |-> repr]

NumpyTypes == {"np.float32", "np.float64", "np.int32", "np.int64"}

\* numpy_type_to_python_type of ax.utils.common.typeutils
numpy_type_to_python_type(value) ==
    IF value.type \in {"np.float32", "np.float64"}
    THEN PyFloat(value.repr) ELSE PyInt(value.repr)

raw_data_to_evaluation(raw_data, objective_name, start_time, end_time) ==
    IF isinstance(raw_data, "dict")
    THEN IF \E k \in DOMAIN raw_data.entries : isinstance(raw_data.entries[k], "dict")
         THEN Raise("ValueError", "Raw data is expected to be just for one arm")
         ELSE Return(raw_data)
    ELSE IF isinstance(raw_data, "list")
    THEN Return(raw_data)
    ELSE IF isinstance(raw_data, "tuple")
    THEN Return(PyDict(objective_name :> raw_data))
    ELSE IF isinstance(raw_data, "float") \/ isinstance(raw_data, "int")
    THEN Return(PyDict(objective_name :> PyTuple(<<raw_data, PyNone>>)))
    ELSE IF raw_data.type \in NumpyTypes
    THEN Return(PyDict(objective_name :>
                    PyTuple(<<numpy_type_to_python_type(raw_data), PyNone>>)))
    ELSE Raise("ValueError", "Raw data has an invalid type")

(***************************************************************************)
(* data_from_evaluations                                                   *)
(***************************************************************************)
DataCall(callee, evaluations, trial_index, sample_sizes, start_time, end_time) ==
    [callee |-> callee, evaluations |-> evaluations, trial_index |-> trial_index,
     sample_sizes |-> sample_sizes, start_time |-> start_time,
     end_time |-> end_time]

\* the object the table constructor returns
Data(callee) == [kind |-> "Data", built_by |-> callee]

\* the first test made with any() for all()
data_from_evaluations_any(evaluations, trial_index, sample_sizes, start_time, end_time) ==
    IF \E x \in DOMAIN evaluations : isinstance(evaluations[x], "dict")
    THEN [ret |-> Return(Data("Data.from_evaluations")),
          calls |-> <<DataCall("Data.from_evaluations", evaluations, trial_index,
                               sample_sizes, start_time, end_time)>>]
    ELSE IF \A x \in DOMAIN evaluations : isinstance(evaluations[x], "list")
    THEN [ret |-> Return(Data("Data.from_fidelity_evaluations")),
          calls |-> <<DataCall("Data.from_fidelity_evaluations", evaluations,
                               trial_index, sample_sizes, start_time, end_time)>>]
    ELSE [ret |-> Raise("ValueError", "Evaluations included a mixture"),
          calls |-> <<>>]

\* the result of the call and the call it made to the table constructor
data_from_evaluations(evaluations, trial_index, sample_sizes, start_time, end_time) ==
    IF \A x \in DOMAIN evaluations : isinstance(evaluations[x], "dict")
    THEN [ret |-> Return(Data("Data.from_evaluations")),
          calls |-> <<DataCall("Data.from_evaluations", evaluations, trial_index,
                               sample_sizes, start_time, end_time)>>]
    ELSE IF \A x \in DOMAIN evaluations : isinstance(evaluations[x], "list")
    THEN [ret |-> Return(Data("Data.from_fidelity_evaluations")),
          calls |-> <<DataCall("Data.from_fidelity_evaluations", evaluations,
                               trial_index, sample_sizes, start_time, end_time)>>]
    ELSE [ret |-> Raise("ValueError", "Evaluations included a mixture"),
          calls |-> <<>>]

(***************************************************************************)
(* Arguments of raw_data_to_evaluation and data_from_evaluations.          *)
(***************************************************************************)
\* longest tuple given as raw data
MaxTupleLen == 3
\* most arms of one trial
MaxArms == 2

Mean == PyFloat("0.42")

MeanSem == PyTuple(<<Mean, PyFloat("0.1")>>)

RawNumbers ==
    {Mean, PyInt("1"), PyBool("True")}
        \cup {PyNumpy(t, "1") : t \in NumpyTypes}

RawTuples == {PyTuple(t) : t \in SeqsUpTo({Mean, PyNone}, MaxTupleLen)}

\* the entries of mappings from metric names
MetricEntries ==
    UNION {[ms -> {MeanSem, Mean, PyDict("c" :> Mean)}] : ms \in SUBSET {"a", "b"}}

RawDicts == {PyDict(e) : e \in MetricEntries}

\* [(fidelities, {metric_name -> (mean, SEM)})]
RawLists ==
    {PyList(<<>>), PyList(<<PyTuple(<<PyDict("f" :> Mean), PyDict("a" :> MeanSem)>>)>>)}

RawData ==
    RawNumbers \cup RawTuples \cup RawDicts \cup RawLists \cup {PyStr("a"), PyNone}

ArmNames == {<<"a", "r", "m", i>> : i \in 1..MaxArms}

\* one evaluation of each shape
ArmEvaluations ==
    {PyDict("a" :> MeanSem), PyList(<<>>), MeanSem, Mean}

Evaluations == UNION {[arms -> ArmEvaluations] : arms \in SUBSET ArmNames}

SampleSizes == UNION {[arms -> {5}] : arms \in SUBSET ArmNames}

CallRawDataToEvaluation ==
    /\ pc = "idle"
    /\ \E raw_data \in RawData, objective_name \in {"loss", DEFAULT_OBJECTIVE_NAME} :
        /\ args' = [raw_data |-> raw_data, objective_name |-> objective_name,
                    start_time |-> None, end_time |-> None]
        /\ ret' = raw_data_to_evaluation(raw_data, objective_name, None, None)
    /\ fn' = "raw_data_to_evaluation"
    /\ calls' = <<>>
    /\ pc' = "done"

CallDataFromEvaluations ==
    /\ pc = "idle"
    /\ \E evaluations \in Evaluations, trial_index \in {0, 1},
          sample_sizes \in SampleSizes, start_time \in {None, Some(0)},
          end_time \in {None, Some(1)} :
        LET result == data_from_evaluations(evaluations, trial_index, sample_sizes,
                                            start_time, end_time)
        IN  /\ args' = [evaluations |-> evaluations, trial_index |-> trial_index,
                        sample_sizes |-> sample_sizes, start_time |-> start_time,
                        end_time |-> end_time]
            /\ ret' = result.ret
            /\ calls' = result.calls
    /\ fn' = "data_from_evaluations"
    /\ pc' = "done"

NextEvaluation == CallRawDataToEvaluation \/ CallDataFromEvaluations \/ Done

SpecEvaluation == Init /\ [][NextEvaluation]_vars

(***************************************************************************)
(* Properties of raw_data_to_evaluation and data_from_evaluations.         *)
(***************************************************************************)
RawDataDone == pc = "done" /\ fn = "raw_data_to_evaluation"

IsNumber(v) == v.type \in {"int", "float", "bool"} \cup NumpyTypes

\* the number as a Python number
AsPython(v) == IF v.type \in NumpyTypes THEN numpy_type_to_python_type(v) ELSE v

\* C8: a mapping without a mapping-valued entry and a list are returned
\* unchanged, a mapping with a mapping-valued entry fails, a 2-tuple t gives
\* {objective_name: t}, a number v gives {objective_name: (v, None)}, and
\* every other shape, a tuple of another length included, fails.
C8_DispatchByShape ==
    RawDataDone =>
        LET raw == args.raw_data
        IN  IF raw.type = "dict"
            THEN IF \E k \in DOMAIN raw.entries : raw.entries[k].type = "dict"
                 THEN ~ret.ok
                 ELSE ret.ok /\ ret.value = raw
            ELSE IF raw.type = "list"
            THEN ret.ok /\ ret.value = raw
            ELSE IF raw.type = "tuple" /\ Len(raw.items) = 2
            THEN ret.ok /\ ret.value = PyDict(args.objective_name :> raw)
            ELSE IF IsNumber(raw)
            THEN /\ ret.ok
                 /\ ret.value =
                        PyDict(args.objective_name :> PyTuple(<<AsPython(raw), PyNone>>))
            ELSE ~ret.ok

DataDone == pc = "done" /\ fn = "data_from_evaluations"

ArmsGiven == DOMAIN args.evaluations

\* the one call to the table constructor, with the arguments of the call
Delegated(callee) ==
    /\ ret.ok
    /\ Len(calls) = 1
    /\ calls[1].callee = callee
    /\ calls[1].evaluations = args.evaluations
    /\ calls[1].trial_index = args.trial_index
    /\ calls[1].sample_sizes = args.sample_sizes
    /\ calls[1].start_time = args.start_time
    /\ calls[1].end_time = args.end_time

\* C9: the no-fidelity constructor is called exactly when every evaluation is
\* a mapping (also when there is none), the with-fidelity constructor exactly
\* when there are evaluations and all are lists, and the call fails otherwise;
\* a delegating call passes evaluations, trial_index, sample_sizes, start_time
\* and end_time through unchanged.
C9_HomogeneousEvaluations ==
    DataDone =>
        LET allMappings == \A x \in ArmsGiven : args.evaluations[x].type = "dict"
            allLists ==
                /\ ArmsGiven # {}
                /\ \A x \in ArmsGiven : args.evaluations[x].type = "list"
        IN  /\ allMappings <=> Delegated("Data.from_evaluations")
            /\ allLists <=> Delegated("Data.from_fidelity_evaluations")
            /\ ~(allMappings \/ allLists) <=> (~ret.ok /\ calls = <<>>)

\* two arms, both with list evaluations: the with-fidelity constructor has
\* been called with the arguments of the call
C9_Witness ==
    /\ DataDone
    /\ Cardinality(ArmsGiven) = 2
    /\ \A x \in ArmsGiven : args.evaluations[x].type = "list"
    /\ args.start_time # None
    /\ Delegated("Data.from_fidelity_evaluations")

====
